---- MODULE Spec2Model ----
(***************************************************************************)
(* Near-Earth Comets Explorer (gg.py): one run of the Streamlit script as  *)
(* a state machine.  The script fetches the comet catalogue, coerces its   *)
(* columns to numbers, filters by eccentricity, derives the semi-major     *)
(* axis, the Tisserand parameter, the discovery year, the family label,    *)
(* the estimated size and the orbital energy, builds the 3D orbit traces   *)
(* and looks up single comets for the detail views.                        *)
(*                                                                         *)
(* float64 values are modelled as tagged fixed-point numbers: NaN, +/-inf  *)
(* or a finite value held in units of 1/Scale, with the IEEE rules for the *)
(* special values (x/0, inf*0, sqrt of a negative, comparisons with NaN).  *)
(***************************************************************************)
EXTENDS Integers, Sequences, FiniteSets, TLC

\* ------------------------------------------------------------------------
\* float64 arithmetic
\* ------------------------------------------------------------------------

\* Fixed-point resolution of a finite float: 1.0 is Scale units.
Scale == 10 * 10 * 10

NaN == [k |-> "nan", v |-> 0]
PInf == [k |-> "inf", v |-> 1]
NInf == [k |-> "inf", v |-> -1]
Fin(n) == [k |-> "fin", v |-> n]
\* An integer literal of the source as a float.
Num(n) == Fin(n * Scale)

IsNaN(x) == x.k = "nan"
IsInf(x) == x.k = "inf"
IsFin(x) == x.k = "fin"

Abs(n) == IF n < 0 THEN -n ELSE n
Sgn(n) == IF n < 0 THEN -1 ELSE IF n > 0 THEN 1 ELSE 0

\* Sign of a float that is not NaN: -1, 0 or 1.
FSign(x) == Sgn(x.v)

FNeg(x) == IF IsNaN(x) THEN NaN ELSE [k |-> x.k, v |-> -x.v]

FAdd(x, y) ==
  IF IsNaN(x) \/ IsNaN(y) THEN NaN
  ELSE IF IsInf(x) /\ IsInf(y) THEN (IF x.v = y.v THEN x ELSE NaN)
  ELSE IF IsInf(x) THEN x
  ELSE IF IsInf(y) THEN y
  ELSE Fin(x.v + y.v)

FSub(x, y) == FAdd(x, FNeg(y))

\* |x| * |y| / Scale without leaving the 32-bit range on the way.
MulMag(a, b) ==
  LET ah == a \div Scale
      al == a % Scale
      bh == b \div Scale
      bl == b % Scale
  IN  ah * bh * Scale + ah * bl + al * bh + (al * bl) \div Scale

FMul(x, y) ==
  IF IsNaN(x) \/ IsNaN(y) THEN NaN
  ELSE IF IsInf(x) \/ IsInf(y)
       THEN (IF FSign(x) * FSign(y) = 0 THEN NaN
             ELSE IF FSign(x) * FSign(y) > 0 THEN PInf ELSE NInf)
  ELSE Fin(Sgn(x.v) * Sgn(y.v) * MulMag(Abs(x.v), Abs(y.v)))

\* |x| * Scale / |y| without leaving the 32-bit range on the way.
DivMag(a, b) ==
  LET qh == a \div b
      rh == a % b
  IN  qh * Scale + (rh * Scale) \div b

\* Division that answers NaN for every zero divisor.
FDivZeroNaN(x, y) ==
  IF IsNaN(x) \/ IsNaN(y) THEN NaN
  ELSE IF IsInf(x) /\ IsInf(y) THEN NaN
  ELSE IF IsInf(y) THEN Fin(0)
  ELSE IF y.v = 0 THEN NaN
  ELSE IF IsInf(x) THEN (IF FSign(x) * FSign(y) > 0 THEN PInf ELSE NInf)
  ELSE Fin(Sgn(x.v) * Sgn(y.v) * DivMag(Abs(x.v), Abs(y.v)))

\* float64 division as numpy does it on arrays: a zero divisor gives +/-inf
\* (NaN for 0/0) and never raises.
FDiv(x, y) ==
  IF IsNaN(x) \/ IsNaN(y) THEN NaN
  ELSE IF IsInf(x) /\ IsInf(y) THEN NaN
  ELSE IF IsInf(y) THEN Fin(0)
  ELSE IF y.v = 0
       THEN (IF FSign(x) = 0 THEN NaN ELSE IF FSign(x) > 0 THEN PInf ELSE NInf)
  ELSE IF IsInf(x) THEN (IF FSign(x) * FSign(y) > 0 THEN PInf ELSE NInf)
  ELSE Fin(Sgn(x.v) * Sgn(y.v) * DivMag(Abs(x.v), Abs(y.v)))

RECURSIVE SqrtSearch(_, _, _)
\* Largest r in lo..hi with r * r <= n (lo * lo <= n is given).
SqrtSearch(n, lo, hi) ==
  IF lo >= hi THEN lo
  ELSE LET mid == (lo + hi + 1) \div 2
       IN  IF mid <= n \div mid THEN SqrtSearch(n, mid, hi)
           ELSE SqrtSearch(n, lo, mid - 1)

ISqrt(n) == IF n = 0 THEN 0 ELSE SqrtSearch(n, 1, IF n < 46340 THEN n ELSE 46340)

\* Magnitude of sqrt(v / Scale) in units of 1 / Scale.
SqrtMag(v) ==
  IF v < 2000000 THEN ISqrt(v * Scale)
  ELSE ISqrt(v \div Scale) * Scale

\* pandas Series.pow(0.5): the square root, NaN for a negative argument.
FPowHalf(x) ==
  IF IsNaN(x) THEN NaN
  ELSE IF IsInf(x) THEN (IF x.v > 0 THEN PInf ELSE NaN)
  ELSE IF x.v < 0 THEN NaN
  ELSE Fin(SqrtMag(x.v))

\* Comparisons: every comparison with NaN is false.
FLt(x, y) ==
  /\ ~IsNaN(x)
  /\ ~IsNaN(y)
  /\ IF IsInf(x) /\ IsInf(y) THEN x.v < y.v
     ELSE IF IsInf(x) THEN x.v < 0
     ELSE IF IsInf(y) THEN y.v > 0
     ELSE x.v < y.v

FGt(x, y) == FLt(y, x)
FLe(x, y) == ~IsNaN(x) /\ ~IsNaN(y) /\ ~FLt(y, x)
FGe(x, y) == FLe(y, x)

\* ------------------------------------------------------------------------
\* Trigonometry.  Angles are held in degrees (units of 1 / Scale); the
\* cosine is Bhaskara's rational approximation, exact at 0, 60, 90, 120
\* and 180 degrees and within 0.002 elsewhere.
\* ------------------------------------------------------------------------

\* cos of d thousandths of a degree, 0 <= d <= 90000, in units of 1 / Scale.
CosQuadrant(d) ==
  LET dd == (d \div 100) * (d \div 100)
  IN  ((3240000 - 4 * dd) * 100) \div ((3240000 + dd) \div 10)

\* cos of m thousandths of a degree, 0 <= m < 360000.
CosTurn(m) ==
  IF m <= 90000 THEN CosQuadrant(m)
  ELSE IF m <= 180000 THEN -CosQuadrant(180000 - m)
  ELSE IF m <= 270000 THEN -CosQuadrant(m - 180000)
  ELSE CosQuadrant(360000 - m)

\* np.cos(np.radians(x)) for x in degrees.
CosDeg(x) ==
  IF IsFin(x) THEN Fin(CosTurn(Abs(x.v) % 360000)) ELSE NaN

\* ------------------------------------------------------------------------
\* The catalogue as the API returns it: a list of JSON objects whose values
\* are text.  A text is a sequence of characters.
\* ------------------------------------------------------------------------

Digits == {"0", "1", "2", "3", "4", "5", "6", "7", "8", "9"}

DigitVal(c) ==
  CASE c = "0" -> 0 [] c = "1" -> 1 [] c = "2" -> 2 [] c = "3" -> 3
    [] c = "4" -> 4 [] c = "5" -> 5 [] c = "6" -> 6 [] c = "7" -> 7
    [] c = "8" -> 8 [] c = "9" -> 9

AllDigits(s) == \A j \in DOMAIN s : s[j] \in Digits

RECURSIVE DigitsValue(_)
\* The natural number a sequence of digits writes.
DigitsValue(s) ==
  IF s = <<>> THEN 0
  ELSE 10 * DigitsValue(SubSeq(s, 1, Len(s) - 1)) + DigitVal(s[Len(s)])

\* The fraction digits f as a count of 1 / Scale (three places kept).
FractionValue(f) ==
  LET pad == SubSeq(f \o <<"0", "0", "0">>, 1, 3)
  IN  DigitsValue(pad)

\* An unsigned decimal: digits with at most one point and at least one digit.
ParseUnsigned(s) ==
  LET dots == {j \in DOMAIN s : s[j] = "."}
  IN  IF dots = {}
      THEN (IF s # <<>> /\ AllDigits(s) THEN Fin(DigitsValue(s) * Scale) ELSE NaN)
      ELSE IF Cardinality(dots) > 1 THEN NaN
      ELSE LET d == CHOOSE j \in dots : TRUE
               ip == SubSeq(s, 1, d - 1)
               fp == SubSeq(s, d + 1, Len(s))
           IN  IF AllDigits(ip) /\ AllDigits(fp) /\ Len(ip) + Len(fp) > 0
               THEN Fin(DigitsValue(ip) * Scale + FractionValue(fp))
               ELSE NaN

\* The number a text writes, NaN when it writes none (errors='coerce').
ParseNumber(s) ==
  IF s # <<>> /\ s[1] = "-" THEN FNeg(ParseUnsigned(Tail(s)))
  ELSE ParseUnsigned(s)

\* A cell of a freshly built DataFrame: the text of the JSON value, or NaN
\* where the row has no such key.
StrCell(s) == [t |-> "str", s |-> s]
NaNCell == [t |-> "nan", s |-> <<>>]

\* pd.to_numeric(cell, errors='coerce')
ToNumeric(cell) == IF cell.t = "nan" THEN NaN ELSE ParseNumber(cell.s)

\* Columns the loader converts to numbers.
numeric_columns ==
  {"e", "i_deg", "w_deg", "node_deg", "q_au_1", "q_au_2", "p_yr", "moid_au"}

ConvertedColumns == numeric_columns \cup {"epoch_tdb"}

\* Columns of pd.DataFrame(rows): every key some row has.
FrameColumns(rows) == UNION {DOMAIN rows[j] : j \in DOMAIN rows}

\* pd.DataFrame(response.json())
BuildFrame(rows) ==
  [j \in DOMAIN rows |->
     [c \in FrameColumns(rows) |->
        IF c \in DOMAIN rows[j] THEN StrCell(rows[j][c]) ELSE NaNCell]]

\* The loop of to_numeric conversions over a frame that has every column.
ConvertFrame(frame) ==
  [j \in DOMAIN frame |->
     [c \in DOMAIN frame[j] |->
        IF c \in ConvertedColumns THEN ToNumeric(frame[j][c]) ELSE frame[j][c]]]

\* ------------------------------------------------------------------------
\* Derived quantities (one row at a time; pandas applies them column-wise)
\* ------------------------------------------------------------------------

\* df_filtered['a'] = q_au_1 / (1 - e)
SemiMajorAxis(q, e) == FDiv(q, FSub(Num(1), e))

\* The Tisserand parameter with a guard that answers NaN unless a > 0.
TisserandGuarded(a, e, i) ==
  IF ~FGt(a, Fin(0)) THEN NaN
  ELSE FAdd(FDiv(Num(3), a),
            FMul(FMul(Num(2),
                      FPowHalf(FDiv(FMul(FSub(Num(1), FMul(e, e)), a), Fin(5200)))),
                 CosDeg(i)))

\* 3 / a + 2 * ((1 - e**2) * a / 5.2).pow(0.5) * cos(radians(i_deg))
Tisserand(a, e, i) ==
  FAdd(FDiv(Num(3), a),
       FMul(FMul(Num(2),
                 FPowHalf(FDiv(FMul(FSub(Num(1), FMul(e, e)), a), Fin(5200)))),
            CosDeg(i)))

IsLeap(y) == (y % 4 = 0 /\ y % 100 # 0) \/ y % 400 = 0
YearLength(y) == IF IsLeap(y) THEN 366 ELSE 365

RECURSIVE YearFrom(_, _)
\* The calendar year of the day d days after 1 January of year y.
YearFrom(y, d) ==
  IF d < 0 THEN YearFrom(y - 1, d + YearLength(y - 1))
  ELSE IF d >= YearLength(y) THEN YearFrom(y + 1, d - YearLength(y))
  ELSE y

\* pd.to_datetime('2000-01-01') + pd.to_timedelta(epoch, unit='D'), held as
\* the offset in days; NaN stands for NaT.
DiscoveryDate(epoch) == IF IsFin(epoch) THEN epoch ELSE NaN

\* discovery_date.dt.year (NaN for NaT)
DiscoveryYear(date) ==
  IF IsFin(date) THEN Num(YearFrom(2000, date.v \div Scale)) ELSE NaN

\* The classification with both thresholds given to the upper category.
FamilyStrict(t) ==
  IF FGe(t, Num(3)) THEN "Encke-type"
  ELSE IF FLe(Num(2), t) /\ FLt(t, Num(3)) THEN "Jupiter-family"
  ELSE "Halley-type"

\* lambda t: "Encke-type" if t > 3 else ("Jupiter-family" if 2 < t <= 3
\*           else "Halley-type")
Family(t) ==
  IF FGt(t, Num(3)) THEN "Encke-type"
  ELSE IF FLt(Num(2), t) /\ FLe(t, Num(3)) THEN "Jupiter-family"
  ELSE "Halley-type"

\* 10 ** (j / 5) for j = 0 .. 4, in units of 1 / Scale.
TenToFifths == <<1000, 1585, 2512, 3981, 6310>>

RECURSIVE TenTo(_)
TenTo(n) == IF n = 0 THEN 1 ELSE 10 * TenTo(n - 1)

\* 10 ** x; the exponent is taken on the grid of fifths, which holds every
\* -0.2 * h for a whole magnitude h.
Pow10(x) ==
  IF ~IsFin(x) THEN NaN
  ELSE LET n == x.v \div Scale
           j == ((x.v % Scale) * 5) \div Scale
           m == TenToFifths[j + 1]
       IN  IF n >= 0 THEN Fin(m * TenTo(n)) ELSE Fin(m \div TenTo(-n))

\* 1329 / np.sqrt(0.04) * 10 ** (-0.2 * pd.to_numeric(h_mag, errors='coerce'))
EstimatedSize(h_cell) ==
  FMul(FDiv(Num(1329), FPowHalf(Fin(40))),
       Pow10(FMul(Fin(-200), ToNumeric(h_cell))))

\* G in 1e-11 m3 kg-1 s-2, M_sun in 1e30 kg, the AU in 1e11 m: the energy
\* comes out in 1e8 J/kg.
G == Fin(6674)
M_sun == Fin(1988)
AUMetres == Fin(1496)

\* -G * M_sun / (2 * a * 1.496e11)
OrbitalEnergy(a) ==
  FDiv(FMul(FNeg(G), M_sun), FMul(FMul(Num(2), a), AUMetres))

\* ------------------------------------------------------------------------
\* The 3D orbit path
\* ------------------------------------------------------------------------

\* 2 * pi in angle units: one degree is 999000 units, so that the sample
\* spacing is a whole number of units.
TwoPi == 359640000
\* Number of samples of the true anomaly.
SampleCount == 1000
\* max_selections of the orbit multiselect.
MaxSelections == 5

\* num samples with the stop left out (endpoint=False).
LinspaceHalfOpen(start, stop, num) ==
  [k \in 1..num |-> start + (k - 1) * ((stop - start) \div num)]

\* np.linspace(start, stop, num): num samples, both ends included.
Linspace(start, stop, num) ==
  [k \in 1..num |->
     IF k = num /\ num > 1 THEN stop
     ELSE start + (k - 1) * ((stop - start) \div (num - 1))]

\* theta = np.linspace(0, 2*np.pi, 1000)
theta == Linspace(0, TwoPi, SampleCount)

\* np.cos(theta) for theta in angle units.
CosTheta(th) == Fin(CosTurn((th \div 999) % 360000))
\* np.sin(theta) = cos(theta - pi / 2)
SinTheta(th) == Fin(CosTurn(((th \div 999) + 270000) % 360000))

\* np.radians(x) for x in degrees, in angle units (0 for a NaN, whose
\* cosine and sine are taken by CosDeg).
DegUnits(x) == IF IsFin(x) THEN (x.v % 360000) * 999 ELSE 0

SinDeg(x) == IF IsFin(x) THEN Fin(CosTurn(((x.v % 360000) + 270000) % 360000)) ELSE NaN

\* r = a * (1 - e**2) / (1 + e * np.cos(theta))
OrbitRadius(a, e, th) ==
  FDiv(FMul(a, FSub(Num(1), FMul(e, e))),
       FAdd(Num(1), FMul(e, CosTheta(th))))

\* The k-th (x, y, z) of a trace, from its elements and its k-th theta.
OrbitPoint(tr, k) ==
  LET th == tr.theta[k]
      r == OrbitRadius(tr.a, tr.e, th)
      cw == IF IsFin(tr.w) THEN CosTheta(th + DegUnits(tr.w)) ELSE NaN
      sw == IF IsFin(tr.w) THEN SinTheta(th + DegUnits(tr.w)) ELSE NaN
  IN  [x |-> FMul(r, FSub(FMul(CosDeg(tr.node), cw),
                          FMul(FMul(SinDeg(tr.node), sw), CosDeg(tr.i)))),
       y |-> FMul(r, FAdd(FMul(SinDeg(tr.node), cw),
                          FMul(FMul(CosDeg(tr.node), sw), CosDeg(tr.i)))),
       z |-> FMul(FMul(r, sw), SinDeg(tr.i))]

\* One pass of the loop over selected_comets: the Scatter3d trace of a row.
\* The x, y, z arrays have one entry per theta (OrbitPoint); the loop has no
\* guard on a or e.
BuildTrace(row) ==
  [name |-> row.object.s, theta |-> theta,
   a |-> row.a, e |-> row.e, i |-> row.i_deg, w |-> row.w_deg,
   node |-> row.node_deg]

\* ------------------------------------------------------------------------
\* Inputs: what the API may answer, and what the user may pick
\* ------------------------------------------------------------------------

\* Longest catalogue the API answers with.
MaxRecords == 3
\* Most comets the user selects for the orbit plot (at most MaxSelections).
MaxSelected == 1
\* The user moves a slider handle this many steps of 0.01 at a time.
HandleStride == 60

\* step=0.01 of the eccentricity slider, in units of 1 / Scale.
SliderStep == Scale \div 100

Txt0 == <<"0">>
Txt1 == <<"1">>
Txt90 == <<"9", "0">>
TxtBad == <<"n", "/", "a">>

RowBase ==
  [w_deg |-> <<"5", "0">>, node_deg |-> <<"1", "0", "0">>, q_au_2 |-> <<"3">>,
   p_yr |-> <<"5">>, moid_au |-> <<"0", ".", "1">>]

Merge(f, g) == [c \in DOMAIN f \cup DOMAIN g |-> IF c \in DOMAIN f THEN f[c] ELSE g[c]]

\* Rows the API may return.  Keys may be absent and values may be unparsable.
Catalogue ==
  { \* circular, a = 1, T = 3
    Merge([object |-> "P/A", e |-> Txt0, q_au_1 |-> Txt1, i_deg |-> Txt90,
           epoch_tdb |-> Txt0, h_mag |-> <<"1", "2">>], RowBase),
    \* circular, a = 1.5, T = 2; magnitude unparsable
    Merge([object |-> "P/B", e |-> Txt0, q_au_1 |-> <<"1", ".", "5">>, i_deg |-> Txt90,
           epoch_tdb |-> <<"3", "6", "6">>, h_mag |-> TxtBad], RowBase),
    \* elliptical, a = 0.5, T > 3; no magnitude
    Merge([object |-> "P/C", e |-> <<"0", ".", "5">>, q_au_1 |-> <<"0", ".", "2", "5">>,
           i_deg |-> Txt0, epoch_tdb |-> <<"8", "0", "0">>], RowBase),
    \* parabolic
    Merge([object |-> "C/D", e |-> Txt1, q_au_1 |-> Txt1, i_deg |-> Txt0,
           epoch_tdb |-> Txt0, h_mag |-> <<"1", "0">>], RowBase),
    \* hyperbolic
    Merge([object |-> "C/E", e |-> <<"1", ".", "2">>, q_au_1 |-> Txt1, i_deg |-> Txt0,
           epoch_tdb |-> Txt0], RowBase),
    \* hyperbolic, inclination absent
    Merge([object |-> "C/F", e |-> <<"1", ".", "2">>, q_au_1 |-> Txt1,
           epoch_tdb |-> Txt0], RowBase),
    \* eccentricity absent
    Merge([object |-> "X/G", q_au_1 |-> Txt1, i_deg |-> Txt0, epoch_tdb |-> Txt0], RowBase),
    \* perihelion distance, period and MOID unparsable; epoch absent
    [object |-> "P/H", e |-> <<"0", ".", "5">>, q_au_1 |-> TxtBad, i_deg |-> Txt0,
     w_deg |-> <<"5", "0">>, node_deg |-> <<"1", "0", "0">>, q_au_2 |-> <<"3">>,
     p_yr |-> TxtBad, moid_au |-> <<"-">>] }

\* Catalogues of up to MaxRecords rows.
Catalogues == UNION {[1..n -> Catalogue] : n \in 0..MaxRecords}

\* HTTP status codes the API may answer with.
StatusCodes == {200, 500}

\* ------------------------------------------------------------------------
\* State
\* ------------------------------------------------------------------------

VARIABLES
  pc,                  \* where the script run is
  cache,               \* st.cache_data entry of fetch_comet_data
  df,                  \* the fetched frame
  e_range,             \* (e_min, e_max) of the slider
  df_filtered,         \* the filtered frame and its derived columns
  selected_comets,     \* value of the orbit multiselect
  fig,                 \* traces of the 3D orbit figure
  comet_data,          \* row looked up for the detail view
  selected_comet_data, \* row looked up for the size estimate
  shown,               \* messages and charts rendered in this run
  exception            \* the exception that ended the run, if any

vars ==
  <<pc, cache, df, e_range, df_filtered, selected_comets, fig, comet_data,
    selected_comet_data, shown, exception>>

None == [k |-> "none"]

Init ==
  /\ pc = "start"
  /\ cache = None
  /\ df = <<>>
  /\ e_range = None
  /\ df_filtered = <<>>
  /\ selected_comets = <<>>
  /\ fig = <<>>
  /\ comet_data = None
  /\ selected_comet_data = None
  /\ shown = {}
  /\ exception = "none"

\* ------------------------------------------------------------------------
\* fetch_comet_data
\* ------------------------------------------------------------------------

\* status 200 and every converted column present: the frame is converted,
\* cached and returned.
FetchOk ==
  /\ pc = "start"
  /\ cache = None
  /\ \E rows \in Catalogues :
       /\ ConvertedColumns \subseteq FrameColumns(rows)
       /\ df' = ConvertFrame(BuildFrame(rows))
       /\ cache' = [df |-> df', shown |-> {}]
  /\ pc' = "fetched"
  /\ UNCHANGED <<e_range, df_filtered, selected_comets, fig, comet_data,
                 selected_comet_data, shown, exception>>

\* status 200 but a converted column is in no row (an empty list included):
\* df[col] raises KeyError; nothing is cached.
FetchKeyError ==
  /\ pc = "start"
  /\ cache = None
  /\ \E rows \in Catalogues : ~(ConvertedColumns \subseteq FrameColumns(rows))
  /\ pc' = "crashed"
  /\ exception' = "KeyError"
  /\ UNCHANGED <<cache, df, e_range, df_filtered, selected_comets, fig, comet_data,
                 selected_comet_data, shown>>

\* any other status: st.error and an empty frame, which is cached too.
FetchFailed ==
  /\ pc = "start"
  /\ cache = None
  /\ \E status \in StatusCodes : status # 200
  /\ df' = <<>>
  /\ shown' = shown \cup {"error: Failed to retrieve data from NASA API"}
  /\ cache' = [df |-> <<>>, shown |-> {"error: Failed to retrieve data from NASA API"}]
  /\ pc' = "fetched"
  /\ UNCHANGED <<e_range, df_filtered, selected_comets, fig, comet_data,
                 selected_comet_data, exception>>

\* a cache hit: the cached frame, and the elements the cached call drew.
FetchCached ==
  /\ pc = "start"
  /\ cache # None
  /\ df' = cache.df
  /\ shown' = shown \cup cache.shown
  /\ pc' = "fetched"
  /\ UNCHANGED <<cache, e_range, df_filtered, selected_comets, fig, comet_data,
                 selected_comet_data, exception>>

\* else: st.warning("No data available to display."), then the footer.
NoData ==
  /\ pc = "fetched"
  /\ df = <<>>
  /\ shown' = shown \cup {"warning: No data available to display."}
  /\ pc' = "done"
  /\ UNCHANGED <<cache, df, e_range, df_filtered, selected_comets, fig, comet_data,
                 selected_comet_data, exception>>

\* ------------------------------------------------------------------------
\* Sidebar filter
\* ------------------------------------------------------------------------

RECURSIVE SeqMin(_)
\* Series.min(): the least value, NaN values skipped (NaN if none is left).
SeqMin(xs) ==
  IF xs = <<>> THEN NaN
  ELSE LET rest == SeqMin(Tail(xs))
       IN  IF IsNaN(Head(xs)) THEN rest
           ELSE IF IsNaN(rest) \/ FLt(Head(xs), rest) THEN Head(xs) ELSE rest

RECURSIVE SeqMax(_)
\* Series.max(): the greatest value, NaN values skipped.
SeqMax(xs) ==
  IF xs = <<>> THEN NaN
  ELSE LET rest == SeqMax(Tail(xs))
       IN  IF IsNaN(Head(xs)) THEN rest
           ELSE IF IsNaN(rest) \/ FGt(Head(xs), rest) THEN Head(xs) ELSE rest

Column(frame, c) == [j \in DOMAIN frame |-> frame[j][c]]

\* Handle positions the user reaches between lo and hi: lo, steps of
\* HandleStride * 0.01 above it, and hi.
HandleStops(lo, hi) ==
  {Fin(lo.v + j * HandleStride * SliderStep) :
     j \in 0..((hi.v - lo.v) \div (HandleStride * SliderStep))} \cup {hi}

\* The mask with missing eccentricities let through.
KeepInRangeOrMissing(row, e_min, e_max) ==
  IsNaN(row.e) \/ (FGe(row.e, e_min) /\ FLe(row.e, e_max))

\* (df['e'] >= e_min) & (df['e'] <= e_max)
KeepInRange(row, e_min, e_max) == FGe(row.e, e_min) /\ FLe(row.e, e_max)

\* df[mask]: the rows the mask keeps, in the frame's order.
FilterFrame(frame, e_min, e_max) ==
  SelectSeq(frame, LAMBDA row : KeepInRange(row, e_min, e_max))

\* The filter step without the check that the frame is not empty.
SelectRangeUnguarded ==
  /\ pc = "fetched"
  /\ LET lo == SeqMin(Column(df, "e"))
         hi == SeqMax(Column(df, "e"))
     IN  \E e_min \in HandleStops(lo, hi), e_max \in HandleStops(lo, hi) :
           /\ e_range' = [e_min |-> e_min, e_max |-> e_max]
           /\ df_filtered' = FilterFrame(df, e_min, e_max)
  /\ shown' = shown \cup {"text: Total Comets"}
  /\ pc' = "filtered"
  /\ UNCHANGED <<cache, df, selected_comets, fig, comet_data, selected_comet_data,
                 exception>>

\* The slider returns a range within [min(e), max(e)]; the frame is filtered.
SelectRange ==
  /\ pc = "fetched"
  /\ df # <<>>
  /\ LET lo == SeqMin(Column(df, "e"))
         hi == SeqMax(Column(df, "e"))
     IN  \E e_min \in HandleStops(lo, hi), e_max \in HandleStops(lo, hi) :
           /\ FLe(e_min, e_max)
           /\ e_range' = [e_min |-> e_min, e_max |-> e_max]
           /\ df_filtered' = FilterFrame(df, e_min, e_max)
  /\ shown' = shown \cup {"text: Total Comets"}
  /\ pc' = "filtered"
  /\ UNCHANGED <<cache, df, selected_comets, fig, comet_data, selected_comet_data,
                 exception>>

\* min(e) = max(e): some Streamlit releases refuse a slider whose min_value
\* is not below its max_value (others return the default range, which is
\* SelectRange with its single stop).
SliderRejected ==
  /\ pc = "fetched"
  /\ df # <<>>
  /\ SeqMin(Column(df, "e")) = SeqMax(Column(df, "e"))
  /\ shown' = shown \cup {"text: Total Comets"}
  /\ pc' = "crashed"
  /\ exception' = "StreamlitAPIException"
  /\ UNCHANGED <<cache, df, e_range, df_filtered, selected_comets, fig, comet_data,
                 selected_comet_data>>

\* ------------------------------------------------------------------------
\* Derived columns
\* ------------------------------------------------------------------------

\* A row with the columns of new added (or replaced).
WithColumns(row, new) == Merge(new, row)

DeriveRow(row) ==
  LET date == DiscoveryDate(row.epoch_tdb)
      a == SemiMajorAxis(row.q_au_1, row.e)
  IN  WithColumns(row, [discovery_date |-> date,
                        discovery_year |-> DiscoveryYear(date),
                        a |-> a,
                        Tisserand |-> Tisserand(a, row.e, row.i_deg)])

\* discovery date and year, semi-major axis, Tisserand parameter
Derive ==
  /\ pc = "filtered"
  /\ df_filtered' = [j \in DOMAIN df_filtered |-> DeriveRow(df_filtered[j])]
  /\ pc' = "derived"
  /\ UNCHANGED <<cache, df, e_range, selected_comets, fig, comet_data,
                 selected_comet_data, shown, exception>>

\* ------------------------------------------------------------------------
\* Tabs
\* ------------------------------------------------------------------------

\* df_filtered['object'].tolist()
ObjectList(frame) == [j \in DOMAIN frame |-> frame[j].object.s]

\* df_filtered[df_filtered['object'] == name]
RowsNamed(frame, name) == SelectSeq(frame, LAMBDA row : row.object.s = name)

\* The options in list order, each name once.
FirstOccurrences(names) ==
  SelectSeq([j \in DOMAIN names |-> <<j, names[j]>>],
            LAMBDA p : \A h \in 1..(p[1] - 1) : names[h] # p[2])

\* The names of chosen, in the order of the option list.
InListOrder(names, chosen) ==
  LET firsts == SelectSeq(FirstOccurrences(names), LAMBDA p : p[2] \in chosen)
  IN  [j \in DOMAIN firsts |-> firsts[j][2]]

Range(xs) == {xs[j] : j \in DOMAIN xs}

Min2(a, b) == IF a < b THEN a ELSE b

\* Charts of tabs 1 to 4 drawn before the orbit plot.
ChartsBeforeOrbits ==
  {"table: Comet Data", "chart: Distribution of Eccentricities",
   "chart: Eccentricity vs Perihelion Distance", "chart: Distribution of Inclinations",
   "chart: Comet Discoveries Over Time", "chart: MOID vs Eccentricity",
   "chart: Distribution of Tisserand Parameters"}

\* df_period is empty: the warning; otherwise the period histogram.
PeriodOutput(frame) ==
  IF \E j \in DOMAIN frame : FGt(frame[j].p_yr, Fin(0))
  THEN "chart: Distribution of Orbital Periods"
  ELSE "warning: No valid orbital period data available for the current filter settings."

\* Tabs 1 to 3 and tab 4 up to the 3D orbit plot.
OrbitVisualization ==
  /\ pc = "derived"
  /\ \E chosen \in SUBSET Range(ObjectList(df_filtered)) :
       /\ Cardinality(chosen) <= Min2(MaxSelected, MaxSelections)
       /\ selected_comets' = InListOrder(ObjectList(df_filtered), chosen)
  /\ fig' = [j \in DOMAIN selected_comets' |->
               BuildTrace(RowsNamed(df_filtered, selected_comets'[j])[1])]
  /\ comet_data' = IF selected_comets' = <<>> THEN comet_data
                   ELSE RowsNamed(df_filtered,
                                  selected_comets'[Len(selected_comets')])[1]
  /\ shown' = shown \cup ChartsBeforeOrbits \cup {PeriodOutput(df_filtered)}
                \cup (IF selected_comets' = <<>>
                      THEN {"info: Please select at least one comet for orbit visualization."}
                      ELSE {"chart: 3D Orbit Visualization"})
  /\ pc' = "orbits"
  /\ UNCHANGED <<cache, df, e_range, df_filtered, selected_comet_data, exception>>

\* Family column, family pie chart (fig is rebound to it), correlation heatmap.
ClassifyFamilies ==
  /\ pc = "orbits"
  /\ df_filtered' = [j \in DOMAIN df_filtered |->
                       WithColumns(df_filtered[j],
                                   [Family |-> Family(df_filtered[j].Tisserand)])]
  /\ fig' = <<>>
  /\ shown' = shown \cup {"chart: Distribution of Comet Families",
                          "chart: Correlation Heatmap of Orbital Parameters"}
  /\ pc' = "classified"
  /\ UNCHANGED <<cache, df, e_range, selected_comets, comet_data,
                 selected_comet_data, exception>>

\* What st.selectbox returns: None when there is no option; otherwise the
\* option the user picked (here the first, the default, or the last).
SelectboxValues(options) ==
  IF options = <<>> THEN {"<None>"} ELSE {options[1], options[Len(options)]}

\* Tab 5: the selected comet's row is found and shown.
DetailView ==
  /\ pc = "classified"
  /\ \E selected_comet \in SelectboxValues(ObjectList(df_filtered)) :
       /\ RowsNamed(df_filtered, selected_comet) # <<>>
       /\ comet_data' = RowsNamed(df_filtered, selected_comet)[1]
  /\ shown' = shown \cup {"text: Detailed Comet Information", "text: Total comets"}
  /\ pc' = "detailed"
  /\ UNCHANGED <<cache, df, e_range, df_filtered, selected_comets, fig,
                 selected_comet_data, exception>>

\* Tab 5: no row matches the selectbox value; .iloc[0] raises IndexError.
DetailIndexError ==
  /\ pc = "classified"
  /\ \E selected_comet \in SelectboxValues(ObjectList(df_filtered)) :
       RowsNamed(df_filtered, selected_comet) = <<>>
  /\ pc' = "crashed"
  /\ exception' = "IndexError"
  /\ UNCHANGED <<cache, df, e_range, df_filtered, selected_comets, fig, comet_data,
                 selected_comet_data, shown>>

\* Charts of tab 6 drawn after the size estimate.
ChartsAfterSize ==
  {"chart: Comet Discovery Rate Over Time", "chart: Orbital Energy vs Semi-major Axis",
   "chart: Comet Family Distribution Over Time"}

\* df_filtered['orbital_energy'] = ...
WithEnergy(frame) ==
  [j \in DOMAIN frame |->
     WithColumns(frame[j], [orbital_energy |-> OrbitalEnergy(frame[j].a)])]

\* df_filtered['estimated_size'] = ...
WithSize(frame) ==
  [j \in DOMAIN frame |->
     WithColumns(frame[j], [estimated_size |-> EstimatedSize(frame[j].h_mag)])]

\* Tab 6 with an h_mag column: the size column, its histogram, the lookup of
\* the selected comet, then the discovery rate, the orbital energy, the
\* family distribution over time and the footer.
SizeEstimation ==
  /\ pc = "detailed"
  /\ "h_mag" \in DOMAIN df[1]
  /\ \E selected_comet \in SelectboxValues(ObjectList(df_filtered)) :
       IF RowsNamed(df_filtered, selected_comet) = <<>>
       THEN /\ pc' = "crashed"
            /\ exception' = "IndexError"
            /\ df_filtered' = WithSize(df_filtered)
            /\ UNCHANGED <<selected_comet_data, shown>>
       ELSE /\ selected_comet_data' = RowsNamed(WithSize(df_filtered), selected_comet)[1]
            /\ df_filtered' = WithEnergy(WithSize(df_filtered))
            /\ shown' = shown \cup ChartsAfterSize
                         \cup {"chart: Perihelion Distance vs Orbital Period",
                               "chart: Distribution of Estimated Comet Sizes",
                               "text: Estimated size"}
            /\ pc' = "done"
            /\ UNCHANGED exception
  /\ UNCHANGED <<cache, df, e_range, selected_comets, fig, comet_data>>

\* Tab 6 without an h_mag column: the warning, then the rest of the tab.
SizeUnavailable ==
  /\ pc = "detailed"
  /\ "h_mag" \notin DOMAIN df[1]
  /\ df_filtered' = WithEnergy(df_filtered)
  /\ shown' = shown \cup ChartsAfterSize
               \cup {"chart: Perihelion Distance vs Orbital Period",
                     "warning: Absolute magnitude data not available for size estimation."}
  /\ pc' = "done"
  /\ UNCHANGED <<cache, df, e_range, selected_comets, fig, comet_data,
                 selected_comet_data, exception>>

\* Any interaction reruns the script from the top; only the cache survives.
Rerun ==
  /\ pc \in {"done", "crashed"}
  /\ pc' = "start"
  /\ df' = <<>>
  /\ e_range' = None
  /\ df_filtered' = <<>>
  /\ selected_comets' = <<>>
  /\ fig' = <<>>
  /\ comet_data' = None
  /\ selected_comet_data' = None
  /\ shown' = {}
  /\ exception' = "none"
  /\ UNCHANGED cache

Next ==
  \/ FetchOk
  \/ FetchKeyError
  \/ FetchFailed
  \/ FetchCached
  \/ NoData
  \/ SelectRange
  \/ SliderRejected
  \/ Derive
  \/ OrbitVisualization
  \/ ClassifyFamilies
  \/ DetailView
  \/ DetailIndexError
  \/ SizeEstimation
  \/ SizeUnavailable
  \/ Rerun

Spec == Init /\ [][Next]_vars

\* ------------------------------------------------------------------------
\* Properties
\* ------------------------------------------------------------------------

ErrorMessage == "error: Failed to retrieve data from NASA API"
NoDataMessage == "warning: No data available to display."
FamilyLabels == {"Encke-type", "Jupiter-family", "Halley-type"}

\* Rows of the filtered frame that carry column c.
RowsWith(c) == {df_filtered[j] : j \in {h \in DOMAIN df_filtered : c \in DOMAIN df_filtered[h]}}

Positive(x) == (IsFin(x) /\ x.v > 0) \/ x = PInf
\* t > n / Scale for a defined t.
Above(t, n) == t = PInf \/ (IsFin(t) /\ t.v > n)
BoundOrbit(tr) == IsFin(tr.a) /\ tr.a.v > 0 /\ IsFin(tr.e) /\ tr.e.v < Scale
Traces == {fig[j] : j \in DOMAIN fig}

\* C1: every row whose Tisserand value is undefined (NaN) has an undefined
\* family label, none of Encke-type, Jupiter-family, Halley-type.
C1_UndefinedTisserandHasNoFamily ==
  \A row \in RowsWith("Family") :
    IsNaN(row.Tisserand) => row.Family \notin FamilyLabels

C3_UnboundOrbitGivesSignalAndNoPoints ==
  \A tr \in Traces :
    ~BoundOrbit(tr) =>
      (tr.theta = <<>> /\ "signal: InvalidOrbitGeometry" \in shown)

\* Indices of the fetched rows whose eccentricity is defined and lies in
\* the inclusive slider range.
InRangeIndices ==
  {j \in DOMAIN df :
     /\ df[j].e.k = "fin"
     /\ e_range.e_min.v <= df[j].e.v
     /\ df[j].e.v <= e_range.e_max.v}

\* The fetched columns of a filtered row.
FetchedPart(row) == [c \in DOMAIN df[1] |-> row[c]]

\* C4: the filtered frame holds exactly the fetched rows whose eccentricity
\* is defined and within [e_min, e_max], in their original relative order;
\* rows with a missing or out-of-range eccentricity do not appear.
C4_FilterKeepsExactlyInRange ==
  e_range # None =>
    /\ Len(df_filtered) = Cardinality(InRangeIndices)
    /\ \A n \in DOMAIN df_filtered :
         \E j \in InRangeIndices :
           /\ Cardinality({h \in InRangeIndices : h < j}) = n - 1
           /\ FetchedPart(df_filtered[n]) = df[j]

C4_Witness ==
  /\ pc = "filtered"
  /\ \E j \in DOMAIN df : IsNaN(df[j].e)
  /\ \E j \in DOMAIN df : IsFin(df[j].e) /\ j \notin InRangeIndices
  /\ df_filtered # <<>>

\* C5: for a defined Tisserand value T the label is Encke-type iff T > 3,
\* Jupiter-family iff 2 < T <= 3 and Halley-type iff T <= 2; T = 3 is
\* Jupiter-family and T = 2 is Halley-type.
C5_FamilyThresholds ==
  \A row \in RowsWith("Family") :
    ~IsNaN(row.Tisserand) =>
      /\ row.Family = "Encke-type" <=> Above(row.Tisserand, 3 * Scale)
      /\ row.Family = "Jupiter-family"
           <=> (Above(row.Tisserand, 2 * Scale) /\ ~Above(row.Tisserand, 3 * Scale))
      /\ row.Family = "Halley-type" <=> ~Above(row.Tisserand, 2 * Scale)

C5_Witness ==
  /\ \E row \in RowsWith("Family") :
       row.Tisserand = Num(3) /\ row.Family = "Jupiter-family"
  /\ \E row \in RowsWith("Family") :
       row.Tisserand = Num(2) /\ row.Family = "Halley-type"
  /\ \E row \in RowsWith("Family") :
       Above(row.Tisserand, 3 * Scale) /\ row.Family = "Encke-type"

\* C6 as claimed: a bound orbit's path has SampleCount points over the
\* half-open range [0, 2 pi): 0 is sampled, 2 pi is not, and consecutive
\* samples differ by 2 pi / SampleCount.
C6_HalfOpenSampling ==
  \A tr \in Traces :
    BoundOrbit(tr) =>
      /\ Len(tr.theta) = SampleCount
      /\ tr.theta[1] = 0
      /\ \A k \in DOMAIN tr.theta : tr.theta[k] # TwoPi
      /\ \A k \in 1..(Len(tr.theta) - 1) :
           (tr.theta[k + 1] - tr.theta[k]) * SampleCount = TwoPi

\* C6 as amended: a bound orbit's path has SampleCount points over the
\* closed range [0, 2 pi]: both 0 and 2 pi are sampled, and consecutive
\* samples differ by 2 pi / (SampleCount - 1).
C6_ClosedRangeSampling ==
  \A tr \in Traces :
    BoundOrbit(tr) =>
      /\ Len(tr.theta) = SampleCount
      /\ tr.theta[1] = 0
      /\ tr.theta[SampleCount] = TwoPi
      /\ \A k \in 1..(Len(tr.theta) - 1) :
           (tr.theta[k + 1] - tr.theta[k]) * (SampleCount - 1) = TwoPi

C6_Witness ==
  \E tr \in Traces :
    /\ BoundOrbit(tr)
    /\ tr.e.v > 0
    /\ Len(tr.theta) = SampleCount
    /\ OrbitPoint(tr, 1) = OrbitPoint(tr, SampleCount)

\* C7 as claimed: for e = 1 and q > 0 the semi-major axis is the undefined
\* marker (NaN), and computing it does not raise.
C7_ParabolicAxisUndefined ==
  /\ exception # "ZeroDivisionError"
  /\ \A row \in RowsWith("a") :
       (row.e = Num(1) /\ Positive(row.q_au_1)) => IsNaN(row.a)

\* C7 as amended: for e = 1 and q > 0 computing the semi-major axis does
\* not raise and yields +infinity: not a finite number, and not the
\* undefined marker either.
C7_ParabolicAxisInfinite ==
  /\ exception # "ZeroDivisionError"
  /\ \A row \in RowsWith("a") :
       (row.e = Num(1) /\ Positive(row.q_au_1)) => row.a = PInf

C7_Witness ==
  /\ pc = "derived"
  /\ \E row \in RowsWith("a") :
       row.e = Num(1) /\ Positive(row.q_au_1) /\ row.a = PInf

\* Undefined raw fields make exactly the derived fields that depend on them
\* undefined, leaving the family label aside.
ConfinedExceptFamily(row) ==
  /\ IsNaN(row.epoch_tdb) <=> IsNaN(row.discovery_year)
  /\ IsNaN(row.q_au_1) => (IsNaN(row.a) /\ IsNaN(row.Tisserand))
  /\ ~IsNaN(row.q_au_1) => ~IsNaN(row.a)
  /\ IsNaN(row.i_deg) => IsNaN(row.Tisserand)
  /\ "estimated_size" \in DOMAIN row =>
       (IsNaN(ToNumeric(row.h_mag)) <=> IsNaN(row.estimated_size))
  /\ "orbital_energy" \in DOMAIN row =>
       (IsNaN(row.a) <=> IsNaN(row.orbital_energy))

\* The part of C8 that does not involve the family label.
UndefinednessConfinedExceptFamily ==
  /\ exception \notin {"ValueError", "TypeError", "ZeroDivisionError"}
  /\ \A row \in RowsWith("Family") : ConfinedExceptFamily(row)

\* C8: an unparsable or missing raw field is undefined for that field only;
\* exactly the derived fields that depend on it are undefined (the family
\* label included, which depends on the Tisserand parameter), the others
\* are computed, and the run does not abort.
C8_UndefinednessConfined ==
  /\ exception \notin {"ValueError", "TypeError", "ZeroDivisionError"}
  /\ \A row \in RowsWith("Family") :
       /\ ConfinedExceptFamily(row)
       /\ IsNaN(row.Tisserand) <=> row.Family \notin FamilyLabels

\* A run whose fetch answered the empty frame of a failed request.
FetchHasFailed == cache # None /\ cache.df = <<>> /\ pc # "start"

\* C9: when the fetch fails the run ends in the empty/error state: the
\* error and the "No data available" messages are shown and no filter,
\* derived field, table or chart is computed or rendered.
C9_FailedFetchShowsOnlyErrorState ==
  FetchHasFailed =>
    /\ pc \in {"fetched", "done"}
    /\ ErrorMessage \in shown
    /\ shown \subseteq {ErrorMessage, NoDataMessage}
    /\ pc = "done" => NoDataMessage \in shown
    /\ e_range = None
    /\ df_filtered = <<>>
    /\ fig = <<>>
    /\ comet_data = None
    /\ selected_comet_data = None
    /\ exception = "none"

C9_Witness ==
  /\ FetchHasFailed
  /\ pc = "done"
  /\ shown = {ErrorMessage, NoDataMessage}

\* C10: with a non-empty fetched frame and any range the slider allows,
\* the lookups of the detail view and of the size estimate find a row, so
\* no run fails on an empty filtered frame.
C10_LookupsFindARow ==
  /\ pc \in {"classified", "detailed"} => df_filtered # <<>>
  /\ exception # "IndexError"

====
